---- MODULE Spec2Model ----
(***************************************************************************)
(* A model of the typeorm integration of odata-v4-server: the CRUD entry   *)
(* points of TypedService and TypedController, the hook dispatch of        *)
(* _executeHooks (awaited hooks / fire-and-forget events), deep insert,    *)
(* the data path of find ($orderby, $select, inline count), save, the      *)
(* action Teacher.addClass, ODataResult.Ok and registerController.         *)
(*                                                                         *)
(* Every async method invocation is a task: a record with a program        *)
(* counter that advances one await-delimited step at a time.  Every        *)
(* invocation of a hook handler is an entry of hinv.                       *)
(***************************************************************************)
EXTENDS Integers, Sequences, FiniteSets, TLC

\* ------------------------------------------------------------- bounds
MaxHooks == 2        \* handlers registered per hook type, at most
MaxChildren == 2     \* elements of a OneToMany navigation array, at most
MaxKey == 2          \* keys of the rows the repository holds initially: 0..MaxKey-1

\* ------------------------------------------------------------- JS values
Undefined == [t |-> "undefined", v |-> 0]
Null == [t |-> "null", v |-> 0]
Num(n) == [t |-> "number", v |-> n]

\* a property that is absent
NoProp == [t |-> "absent", v |-> 0]

\* key != undefined && key != null
isNullish(x) == x.t \in {"undefined", "null"}

\* ------------------------------------------------------------- hooks.ts
HookType == {"beforeCreate", "beforeUpdate", "beforeDelete", "afterLoad", "afterSave"}

\* the hook types dispatched as events
HookEvents == {"afterSave"}

\* ------------------------------------------------------------- schema
\* The entity types of the server and their declared navigations
\* (getODataEntityNavigations): Teacher as in the school model, the others
\* one navigation each so that every branch of _deepInsert is reached.
\* foreignKey and targetForeignKey are the options of the declaration
\* ("undefined" for an option not given); fkOn is the entity type that has a
\* property of the name options.foreignKey.
EntityTypes == {"Teacher", "Class", "Profile", "RefModel", "Owner", "Orphan"}

Nav(name, type, entity, fkOn, foreignKey, targetForeignKey) ==
  [name |-> name, type |-> type, entity |-> entity, fkOn |-> fkOn,
   foreignKey |-> foreignKey, targetForeignKey |-> targetForeignKey]

getODataEntityNavigations(e) ==
  CASE e = "Teacher"  -> << Nav("profile", "OneToOne", "Profile", "source", "profileId", "undefined"),
                            Nav("classes", "OneToMany", "Class", "none", "undefined", "teacherOneId") >>
    [] e = "RefModel" -> << Nav("sm", "ManyToOne", "Profile", "source", "sMId", "undefined") >>
    [] e = "Owner"    -> << Nav("owned", "OneToOne", "Profile", "target", "ownerId", "undefined") >>
    [] e = "Orphan"   -> << Nav("other", "OneToOne", "Profile", "none", "otherId", "undefined") >>
    [] OTHER          -> << >>

\* the column of the target that refers to the source of a OneToMany navigation
targetColumn(nav) == nav.targetForeignKey

\* getType(entityType, fkName, container): is the foreign key declared on it
fkDeclaredOn(nav, side) == nav.fkOn = side

\* ------------------------------------------------------------- bodies
\* The value a body carries for a navigation property: absent, an object, or
\* an array of len elements.
Absent == [present |-> FALSE, isArray |-> FALSE, len |-> 0]
Obj == [present |-> TRUE, isArray |-> FALSE, len |-> 0]
Arr(n) == [present |-> TRUE, isArray |-> TRUE, len |-> n]

NavValues(nav) ==
  IF nav.type = "OneToMany"
  THEN {Absent, Obj} \cup {Arr(n) : n \in 0..MaxChildren}
  ELSE {Absent, Obj}

AllNavValues == {Absent, Obj} \cup {Arr(n) : n \in 0..MaxChildren}

BodyNavs(e) ==
  LET navs == getODataEntityNavigations(e)
  IN  {s \in [1..Len(navs) -> AllNavValues] : \A i \in 1..Len(navs) : s[i] \in NavValues(navs[i])}

\* a body without navigation values (an element of a deep insert)
PlainBody(e, fk) ==
  [fk |-> fk, nav |-> [i \in 1..Len(getODataEntityNavigations(e)) |-> Absent],
   key |-> Undefined]

Bodies(e) == {[fk |-> Undefined, nav |-> s, key |-> Undefined] : s \in BodyNavs(e)}

\* The query of find: absent, or a query with or without $count=true and
\* with or without $top.
NoQuery == [given |-> FALSE, count |-> FALSE, top |-> NoProp]

\* ------------------------------------------------------------- state
VARIABLES
  tasks,         \* the async method invocations, in the order they were called
  hinv,          \* the hook handler invocations, each with its number in its task
  writes,        \* the repository writes issued, each with its number in its task
  db,            \* the rows of the repositories
  hookRegistry,  \* hook type -> number of handlers findHooks returns for it
  qs,            \* the data path of a query (find with $orderby / $select)
  okCall,        \* a call of ODataResult.Ok
  entityControllers,  \* the map of registerController: entity -> controller
  regCall        \* the last call of registerController / getEntityController

vars == <<tasks, hinv, writes, db, hookRegistry, qs, okCall, entityControllers, regCall>>

Row(e, k, fk) == [type |-> e, key |-> k, fk |-> fk]

InitialKeys == 0..(MaxKey - 1)

InitialDbs ==
  {{}} \cup {{Row(e, k, Undefined) : e \in EntityTypes} : k \in InitialKeys}
       \cup {{Row(e, k, Undefined) : e \in EntityTypes, k \in InitialKeys}}

\* repo.findOne(key)
repoFindOne(e, key) ==
  IF key.t = "number" /\ \E r \in db : r.type = e /\ r.key = key.v
  THEN key
  ELSE Undefined

\* the key a generated-key INSERT assigns
nextKey(e) ==
  LET used == {r.key : r \in {x \in db : x.type = e}}
  IN  IF used = {} THEN 1 ELSE 1 + CHOOSE m \in used : \A u \in used : u <= m

NoResult == [kind |-> "none", key |-> Undefined]

NewTask(ctl, op, e, key, body, tx, parent, pc) ==
  [ctl |-> ctl, op |-> op, etype |-> e, key |-> key, body |-> body, tx |-> tx,
   parent |-> parent, pc |-> pc, hookType |-> "undefined", idx |-> 0, ret |-> "none",
   navIdx |-> 0, reSave |-> FALSE, inst |-> [key |-> body.key, fk |-> body.fk],
   repo |-> FALSE,
   data |-> Undefined, kids |-> {}, consulted |-> FALSE, em |-> FALSE,
   nInv |-> 0, nWr |-> 0, query |-> NoQuery, arg |-> Undefined, steps |-> << >>,
   status |-> "running", error |-> "none", result |-> NoResult]

Tids == 1..Len(tasks)

Running(t) == t \in Tids /\ tasks[t].status = "running"

\* the task throws: its promise rejects with err
\* const repo = await this._getRepository(ctx): the call has asked for the
\* repository
getRepository(ts, t) == [ts EXCEPT ![t].repo = TRUE]

Throw(t, err) ==
  [tasks EXCEPT ![t].status = "failed", ![t].error = err, ![t].pc = "rejected"]

\* the task returns: its promise resolves with res
Return(t, res) ==
  [tasks EXCEPT ![t].status = "ok", ![t].result = res, ![t].pc = "resolved"]

\* the controller classes; "undefined" is what Map.get returns for no entry
Controllers == {"ControllerA", "ControllerB"}

NoController == "undefined"

\* new Map(): no entity has an entry
EmptyMap == [e \in {} |-> NoController]

\* a call of registerController / getEntityController: the map before it,
\* whether it threw, what it returned, and the first controller that
\* registerController was ever called with for each entity
RegCall(op, entity, controller, before, threw, returned, first) ==
  [op |-> op, entity |-> entity, controller |-> controller, before |-> before,
   threw |-> threw, returned |-> returned, first |-> first]

\* no call of ODataResult.Ok, and the module of registerController just loaded
NoOtherCalls ==
  /\ okCall = [pc |-> "idle"]
  /\ entityControllers = EmptyMap
  /\ regCall = RegCall("none", "none", NoController, EmptyMap, FALSE, NoController, EmptyMap)

Registries ==
  {[h \in HookType |-> IF h \in HookEvents THEN m ELSE n] : n \in 0..MaxHooks, m \in 0..MaxHooks}

Init ==
  /\ tasks = << >>
  /\ hinv = {}
  /\ writes = {}
  /\ db \in InitialDbs
  /\ hookRegistry \in Registries
  /\ qs = [pc |-> "idle"]
  /\ NoOtherCalls


\* ------------------------------------------------------------- requests
\* One request is served per behaviour; the tasks it calls are its deep-insert
\* creates.  A request is a call of a CRUD entry point, or a direct call of
\* _executeHooks with the context given.
KeyInputs == {Undefined, Null} \cup {Num(k) : k \in InitialKeys}

StartPc(ctl, op) ==
  IF op = "executeHooks" THEN "hooks_enter"
  ELSE IF ctl = "service" THEN op
  ELSE CASE op = "findOne" -> "c_findOne"
         [] op = "create" -> "c_create"
         [] op = "update" -> "c_update"
         [] op = "delete" -> "c_delete"

Request(ctl, op, e, key, body, tx, hookType) ==
  /\ tasks = << >>
  /\ tasks' = << [NewTask(ctl, op, e, key, body, tx, 0, StartPc(ctl, op))
                    EXCEPT !.hookType = hookType, !.ret = "void_ret"] >>
  /\ UNCHANGED <<hinv, writes, db, hookRegistry, qs, okCall, entityControllers, regCall>>

\* ------------------------------------------------------------- _executeHooks
\* (mutation) no hook type is taken for an event
isEvent_never(hookType) == FALSE

\* (mutation) every hook type is taken for an event
isEvent_always(hookType) == TRUE

\* HookEvents.includes(ctx.hookType)
isEvent(hookType) == hookType \in HookEvents

\* findHooks(serverType, entityType, hookType): the handlers, as 1..n
findHooks(e, hookType) ==
  IF hookType \in DOMAIN hookRegistry THEN hookRegistry[hookType] ELSE 0

\* (mutation) the check of the hook type is missing
hookTypeMissing_never(hookType) == FALSE

\* ctx.hookType == undefined
hookTypeMissing(hookType) == hookType = "undefined"

\* (mutation) the txContext is left in the context of an event
ctxTxContext_kept(t) == tasks[t].tx

\* the txContext of the context handed to the handlers
ctxTxContext(t) == IF isEvent(tasks[t].hookType) THEN "deleted" ELSE tasks[t].tx

\* the properties of the context the operation calls _executeHooks with,
\* besides hookType and txContext: data for findOne, find and create, data
\* and key for update, key for delete; entityType for findOne only
givenCtx(t) ==
  CASE tasks[t].op \in {"findOne"} ->
         [data |-> tasks[t].data, key |-> NoProp, entityType |-> tasks[t].etype,
          getService |-> "undefined"]
    [] tasks[t].op \in {"find"} ->
         [data |-> tasks[t].data, key |-> NoProp, entityType |-> "undefined",
          getService |-> "undefined"]
    [] tasks[t].op = "create" ->
         [data |-> tasks[t].inst, key |-> NoProp, entityType |-> "undefined",
          getService |-> "undefined"]
    [] tasks[t].op = "update" ->
         [data |-> tasks[t].inst, key |-> tasks[t].key, entityType |-> "undefined",
          getService |-> "undefined"]
    [] tasks[t].op = "delete" ->
         [data |-> NoProp, key |-> tasks[t].key, entityType |-> "undefined",
          getService |-> "undefined"]
    [] OTHER ->
         [data |-> NoProp, key |-> NoProp, entityType |-> "undefined",
          getService |-> "undefined"]

\* if (ctx.entityType == undefined) ctx.entityType = this._getEntityType()
defaultEntityType(t, given) == IF given = "undefined" THEN tasks[t].etype ELSE given

\* (mutation) getService is left as it was given
defaultGetService_asGiven(given) == given

\* if (ctx.getService == undefined) ctx.getService = this._getService.bind(this)
defaultGetService(given) == IF given = "undefined" THEN "_getService" ELSE given

\* the invocation of handler idx, the seq-th invocation of a handler by the
\* task, with the context it is handed
HInv(t, idx, seq, state) ==
  [task |-> t, hookType |-> tasks[t].hookType, idx |-> idx, seq |-> seq, state |-> state,
   txContext |-> ctxTxContext(t), data |-> givenCtx(t).data, key |-> givenCtx(t).key,
   etype |-> defaultEntityType(t, givenCtx(t).entityType),
   getService |-> IF tasks[t].ctl = "service"
                  THEN defaultGetService(givenCtx(t).getService)
                  ELSE givenCtx(t).getService]

\* _executeHooks from the check of ctx.hookType to the loop (no await in
\* between): it throws, or findHooks is consulted and the loop is entered;
\* with no handler the loop is left at once
enterHooks(t, hookType, ret) ==
  IF hookTypeMissing(hookType)
  THEN [Throw(t, "ServerInternalError") EXCEPT ![t].hookType = hookType]
  ELSE [tasks EXCEPT ![t].pc = IF findHooks(tasks[t].etype, hookType) = 0
                               THEN ret ELSE "hooks_loop",
                     ![t].hookType = hookType, ![t].idx = 1, ![t].ret = ret,
                     ![t].consulted = TRUE]

\* this._executeHooks({hookType, ...}) called; ret is where the caller resumes.
\* TypedController._executeHooks first awaits the entity manager.
CallHooks(t, hookType, ret) ==
  IF tasks[t].ctl = "service"
  THEN enterHooks(t, hookType, ret)
  ELSE [tasks EXCEPT ![t].pc = "hooks_enter", ![t].hookType = hookType,
                     ![t].idx = 0, ![t].ret = ret, ![t].consulted = FALSE]

\* TypedService._executeHooks called directly, up to the loop
ExecuteHooksEnter(t) ==
  /\ Running(t) /\ tasks[t].ctl = "service" /\ tasks[t].pc = "hooks_enter"
  /\ tasks' = enterHooks(t, tasks[t].hookType, tasks[t].ret)
  /\ UNCHANGED <<hinv, writes, db, hookRegistry, qs, okCall, entityControllers, regCall>>

\* TypedController._executeHooks: ctx.em = await this._getEntityManager(ctx.context)
CtlExecuteHooksEm(t) ==
  /\ Running(t) /\ tasks[t].ctl = "controller" /\ tasks[t].pc = "hooks_enter"
  /\ tasks' = [tasks EXCEPT ![t].pc = "hooks_enter2", ![t].em = TRUE]
  /\ UNCHANGED <<hinv, writes, db, hookRegistry, qs, okCall, entityControllers, regCall>>

\* TypedController._executeHooks from the hookType check up to the loop
CtlExecuteHooksEnter(t) ==
  /\ Running(t) /\ tasks[t].ctl = "controller" /\ tasks[t].pc = "hooks_enter2"
  /\ tasks' = enterHooks(t, tasks[t].hookType, tasks[t].ret)
  /\ UNCHANGED <<hinv, writes, db, hookRegistry, qs, okCall, entityControllers, regCall>>

\* hook.execute(ctx) throws before it returns a promise: the throw leaves the
\* loop and _executeHooks, whatever the hook type (.catch is never reached)
onSyncThrow(t) == Throw(t, "HookError")

\* the loop of _executeHooks (both classes) up to its next await.
\* Events: every handler is called in turn without an await; the loop ends
\* after the last one, or at handler k, which throws while being called.
\* Hooks: handler idx is called and throws, or returns a promise that is awaited.
ExecuteHooksLoop(t) ==
  /\ Running(t) /\ tasks[t].pc = "hooks_loop"
  /\ LET n == findHooks(tasks[t].etype, tasks[t].hookType)
         idx == tasks[t].idx
         seq(j) == tasks[t].nInv + (j - idx) + 1
     IN  IF isEvent(tasks[t].hookType)
         THEN \E k \in idx..(n + 1) :
                /\ hinv' = hinv \cup
                     {HInv(t, j, seq(j), IF j = k THEN "threw" ELSE "running") :
                        j \in idx..(IF k > n THEN n ELSE k)}
                /\ tasks' = IF k > n
                            THEN [tasks EXCEPT ![t].pc = tasks[t].ret, ![t].idx = n + 1,
                                               ![t].nInv = seq(n)]
                            ELSE onSyncThrow(t)
         ELSE \/ /\ hinv' = hinv \cup {HInv(t, idx, seq(idx), "running")}
                 /\ tasks' = [tasks EXCEPT ![t].pc = "hooks_await", ![t].nInv = seq(idx)]
              \/ /\ hinv' = hinv \cup {HInv(t, idx, seq(idx), "threw")}
                 /\ tasks' = onSyncThrow(t)
  /\ UNCHANGED <<writes, db, hookRegistry, qs, okCall, entityControllers, regCall>>

\* the invocation the task awaits
CurrentInv(t) ==
  CHOOSE x \in hinv :
    /\ x.task = t /\ x.hookType = tasks[t].hookType /\ x.idx = tasks[t].idx
    /\ x.seq = tasks[t].nInv

\* idx++ after the await: the next round of the loop, or its end
resumeLoop(t) ==
  [tasks EXCEPT ![t].idx = @ + 1,
                ![t].pc = IF tasks[t].idx + 1 > findHooks(tasks[t].etype, tasks[t].hookType)
                          THEN tasks[t].ret ELSE "hooks_loop"]

\* (mutation) the rejection of an awaited handler is swallowed
onAwaitedRejection_swallowed(t) == resumeLoop(t)

\* await hook.execute(ctx) rejected
onAwaitedRejection(t) == Throw(t, "HookError")

\* await hook.execute(ctx): resumes when the promise of the handler settles
ExecuteHooksAwait(t) ==
  /\ Running(t) /\ tasks[t].pc = "hooks_await"
  /\ CurrentInv(t).state \in {"resolved", "rejected"}
  /\ IF CurrentInv(t).state = "resolved"
     THEN tasks' = resumeLoop(t)
     ELSE tasks' = onAwaitedRejection(t)
  /\ UNCHANGED <<hinv, writes, db, hookRegistry, qs, okCall, entityControllers, regCall>>

\* a handler that is running completes, or fails: its promise settles.  The
\* rejection of an event handler goes to .catch (console.error / ignored).
HandlerSettle(x, outcome) ==
  /\ x \in hinv /\ x.state = "running"
  /\ hinv' = (hinv \ {x}) \cup {[x EXCEPT !.state = outcome]}
  /\ UNCHANGED <<tasks, writes, db, hookRegistry, qs, okCall, entityControllers, regCall>>

\* ------------------------------------------------------------- TypedService
\* (mutation) nothing is taken for empty
isEmpty_never(data) == FALSE

\* isEmpty(data) of @newdash: undefined, or an object without properties
isEmpty(data) == data.t = "undefined"

\* the repository write the task issues next, on the repository it got for
\* its transaction context: this._getRepository(ctx)
Write(t, op, k) ==
  [task |-> t, op |-> op, type |-> tasks[t].etype, key |-> k, seq |-> tasks[t].nWr + 1,
   tx |-> tasks[t].tx]

\* TypedService.findOne
FindOne(t) ==
  /\ Running(t) /\ tasks[t].pc = "findOne"
  /\ IF ~isNullish(tasks[t].key)
     THEN LET data == repoFindOne(tasks[t].etype, tasks[t].key)
          IN  IF isEmpty(data)
              THEN tasks' = getRepository(Throw(t, "ResourceNotFoundError"), t)
              ELSE tasks' = getRepository([CallHooks(t, "afterLoad", "findOne_ret")
                                             EXCEPT ![t].data = data], t)
     ELSE tasks' = Return(t, [kind |-> "empty", key |-> Undefined])
  /\ UNCHANGED <<hinv, writes, db, hookRegistry, qs, okCall, entityControllers, regCall>>

FindOneReturn(t) ==
  /\ Running(t) /\ tasks[t].pc = "findOne_ret"
  /\ tasks' = Return(t, [kind |-> "entity", key |-> tasks[t].data])
  /\ UNCHANGED <<hinv, writes, db, hookRegistry, qs, okCall, entityControllers, regCall>>

\* TypedService.create up to the beforeCreate hooks: the inbound payload is
\* transformed, the instance made of it, and _executeHooks is called
Create(t) ==
  /\ Running(t) /\ tasks[t].pc = "create"
  /\ tasks' = getRepository([CallHooks(t, "beforeCreate", "insert")
                               EXCEPT ![t].steps = <<"transform", "beforeCreate">>], t)
  /\ UNCHANGED <<hinv, writes, db, hookRegistry, qs, okCall, entityControllers, regCall>>

\* the first navigation from i on that the body has a value for
nextNav(e, body, i) ==
  LET present == {j \in i..Len(getODataEntityNavigations(e)) : body.nav[j].present}
  IN  IF present = {} THEN Len(getODataEntityNavigations(e)) + 1
      ELSE CHOOSE j \in present : \A m \in present : j <= m

\* the key repo.insert stores the instance under: the one the instance
\* carries, otherwise the generated one
insertKey(t) ==
  IF tasks[t].inst.key.t = "number" THEN tasks[t].inst.key.v ELSE nextKey(tasks[t].etype)

\* const { identifiers: [id] } = await repo.insert(instance), and _deepInsert
\* up to the first navigation the body has a value for; the insert of a key
\* that is stored already is rejected by the database
CreateInsert(t) ==
  /\ Running(t) /\ tasks[t].pc = "insert"
  /\ LET k == insertKey(t)
     IN  IF repoFindOne(tasks[t].etype, Num(k)).t # "undefined"
         THEN /\ tasks' = [Throw(t, "QueryFailedError")
                                EXCEPT ![t].nWr = @ + 1, ![t].steps = @ \o <<"insert">>]
              /\ writes' = writes \cup {Write(t, "insert", Num(k))}
              /\ UNCHANGED db
         ELSE /\ db' = db \cup {Row(tasks[t].etype, k, tasks[t].inst.fk)}
              /\ writes' = writes \cup {Write(t, "insert", Num(k))}
              /\ tasks' = [tasks EXCEPT ![t].pc = "deep",
                                        ![t].navIdx = nextNav(tasks[t].etype, tasks[t].body, 1),
                                        ![t].reSave = FALSE, ![t].inst.key = Num(k),
                                        ![t].nWr = @ + 1,
                                        ![t].steps = @ \o <<"insert", "deepInsert">>]
  /\ UNCHANGED <<hinv, hookRegistry, qs, okCall, entityControllers, regCall>>

\* (mutation) the instance is never saved again
needsSave_never(t) == FALSE

\* (mutation) the instance is saved again in any case
needsSave_always(t) == TRUE

\* if (reSaveRequired), with the value _deepInsert returned
needsSave(t) == tasks[t].reSave

\* if (reSaveRequired) await repo.save(instance); then the afterSave dispatch
CreateSave(t) ==
  /\ Running(t) /\ tasks[t].pc = "resave"
  /\ IF needsSave(t)
     THEN /\ db' = {IF r.type = tasks[t].etype /\ r.key = tasks[t].inst.key.v
                    THEN [r EXCEPT !.fk = tasks[t].inst.fk] ELSE r : r \in db}
          /\ writes' = writes \cup {Write(t, "save", tasks[t].inst.key)}
          /\ tasks' = [CallHooks(t, "afterSave", "create_ret")
                         EXCEPT ![t].data = tasks[t].inst.key, ![t].nWr = @ + 1,
                                ![t].steps = @ \o <<"save", "afterSave">>]
     ELSE /\ UNCHANGED <<db, writes>>
          /\ tasks' = [CallHooks(t, "afterSave", "create_ret")
                         EXCEPT ![t].data = tasks[t].inst.key,
                                ![t].steps = @ \o <<"afterSave">>]
  /\ UNCHANGED <<hinv, hookRegistry, qs, okCall, entityControllers, regCall>>

\* return instance
CreateReturn(t) ==
  /\ Running(t) /\ tasks[t].pc = "create_ret"
  /\ tasks' = [Return(t, [kind |-> "instance", key |-> tasks[t].inst.key])
                 EXCEPT ![t].steps = @ \o <<"return">>]
  /\ UNCHANGED <<hinv, writes, db, hookRegistry, qs, okCall, entityControllers, regCall>>

\* TypedService.update up to the beforeUpdate hooks
Update(t) ==
  /\ Running(t) /\ tasks[t].pc = "update"
  /\ tasks' = getRepository(CallHooks(t, "beforeUpdate", "update_write"), t)
  /\ UNCHANGED <<hinv, writes, db, hookRegistry, qs, okCall, entityControllers, regCall>>

\* await repo.update(key, instance); then the afterSave dispatch
UpdateWrite(t) ==
  /\ Running(t) /\ tasks[t].pc = "update_write"
  /\ db' = {IF r.type = tasks[t].etype /\ tasks[t].key.t = "number" /\ r.key = tasks[t].key.v
            THEN [r EXCEPT !.fk = tasks[t].inst.fk] ELSE r : r \in db}
  /\ writes' = writes \cup {Write(t, "update", tasks[t].key)}
  /\ tasks' = [CallHooks(t, "afterSave", "void_ret") EXCEPT ![t].nWr = @ + 1]
  /\ UNCHANGED <<hinv, hookRegistry, qs, okCall, entityControllers, regCall>>

\* TypedService.delete up to the beforeDelete hooks
Delete(t) ==
  /\ Running(t) /\ tasks[t].pc = "delete"
  /\ tasks' = getRepository(CallHooks(t, "beforeDelete", "delete_write"), t)
  /\ UNCHANGED <<hinv, writes, db, hookRegistry, qs, okCall, entityControllers, regCall>>

\* await repo.delete(key); then the afterSave dispatch
DeleteWrite(t) ==
  /\ Running(t) /\ tasks[t].pc = "delete_write"
  /\ db' = {r \in db : ~(r.type = tasks[t].etype /\ tasks[t].key.t = "number"
                          /\ r.key = tasks[t].key.v)}
  /\ writes' = writes \cup {Write(t, "delete", tasks[t].key)}
  /\ tasks' = [CallHooks(t, "afterSave", "void_ret") EXCEPT ![t].nWr = @ + 1]
  /\ UNCHANGED <<hinv, hookRegistry, qs, okCall, entityControllers, regCall>>

\* update, delete and a direct _executeHooks resolve with no value
VoidReturn(t) ==
  /\ Running(t) /\ tasks[t].pc = "void_ret"
  /\ tasks' = Return(t, NoResult)
  /\ UNCHANGED <<hinv, writes, db, hookRegistry, qs, okCall, entityControllers, regCall>>

\* ------------------------------------------------------------- _deepInsert
\* (mutation) the nested create is called without the transaction context
childCtx_none(t) == "undefined"

\* the ctx argument of service.create(navigationItem, ctx) in _deepInsert
childCtx(t) == tasks[t].tx

\* service.create(navigationItem, ctx) called n times: the new tasks
Spawn(t, e, fk, n) ==
  [i \in 1..n |-> NewTask("service", "create", e, Undefined, PlainBody(e, fk),
                          childCtx(t), t, "create")]

\* navigationItem[fkName] = body[thisKeyName], fkName being options.foreignKey:
\* the value the column of the element that refers to the parent gets.  A
\* property that is no column of the element is dropped by repo.create.
itemForeignKey(nav, key) ==
  IF nav.foreignKey = targetColumn(nav) THEN key ELSE Undefined

\* (mutation) a OneToMany value that is no array is skipped
onNotArray_ignored(t) == [tasks EXCEPT ![t].pc = "resave"]

\* the OneToMany case with a value that is no array
onNotArray(t) == Throw(t, "ServerInternalError")

\* the round of the loop over the navigations for the next navigation the
\* body has a value for, up to the await of the creates; or the end of the loop
DeepInsert(t) ==
  /\ Running(t) /\ tasks[t].pc = "deep"
  /\ LET navs == getODataEntityNavigations(tasks[t].etype)
         i == tasks[t].navIdx
     IN  IF i > Len(navs)
         THEN tasks' = [tasks EXCEPT ![t].pc = "resave"]
         ELSE LET v == tasks[t].body.nav[i]
                  first == Len(tasks) + 1
              IN  CASE navs[i].type = "OneToMany" ->
                         IF v.isArray
                         THEN tasks' = [tasks EXCEPT ![t].pc = "deep_wait",
                                                     ![t].kids = first..(first + v.len - 1)]
                                         \o Spawn(t, navs[i].entity,
                                                  itemForeignKey(navs[i], tasks[t].inst.key), v.len)
                         ELSE tasks' = onNotArray(t)
                    [] navs[i].type = "ManyToOne" ->
                         tasks' = [tasks EXCEPT ![t].pc = "deep_wait", ![t].kids = {first},
                                                ![t].reSave = TRUE]
                                    \o Spawn(t, navs[i].entity, Undefined, 1)
                    [] OTHER ->
                         tasks' = [tasks EXCEPT ![t].pc = "deep_wait", ![t].kids = {first}]
                                    \o Spawn(t, navs[i].entity, Undefined, 1)
  /\ UNCHANGED <<hinv, writes, db, hookRegistry, qs, okCall, entityControllers, regCall>>

\* the loop goes on with the next navigation the body has a value for
nextRound(t) ==
  [tasks EXCEPT ![t].pc = "deep", ![t].kids = {},
                ![t].navIdx = nextNav(tasks[t].etype, tasks[t].body, tasks[t].navIdx + 1)]

\* (mutation) a foreign key declared on neither side is not reported
onOneToOneCreated_noThrow(t, nav, created) ==
  IF fkDeclaredOn(nav, "source")
  THEN [nextRound(t) EXCEPT ![t].reSave = TRUE, ![t].inst.fk = created]
  ELSE nextRound(t)

\* the one-to-one case after the create of the target: the foreign key is on
\* the source, on the target, or on neither
onOneToOneCreated(t, nav, created) ==
  IF fkDeclaredOn(nav, "source")
  THEN [nextRound(t) EXCEPT ![t].reSave = TRUE, ![t].inst.fk = created]
  ELSE IF fkDeclaredOn(nav, "target")
  THEN nextRound(t)
  ELSE Throw(t, "ServerInternalError")

\* the awaited creates settled: Promise.all / await rejects with the error of
\* a create that failed, and resolves when all have resolved
DeepInsertResume(t) ==
  /\ Running(t) /\ tasks[t].pc = "deep_wait"
  /\ LET nav == getODataEntityNavigations(tasks[t].etype)[tasks[t].navIdx]
         kids == tasks[t].kids
     IN  \/ \E k \in kids :
               /\ tasks[k].status = "failed"
               /\ tasks' = Throw(t, tasks[k].error)
         \/ /\ \A k \in kids : tasks[k].status = "ok"
            /\ CASE nav.type = "OneToMany" ->
                      tasks' = nextRound(t)
                 [] nav.type = "ManyToOne" ->
                      tasks' = [nextRound(t) EXCEPT
                                  ![t].inst.fk = tasks[CHOOSE k \in kids : TRUE].result.key]
                 [] OTHER ->
                      tasks' = onOneToOneCreated(t, nav,
                                  tasks[CHOOSE k \in kids : TRUE].result.key)
  /\ UNCHANGED <<hinv, writes, db, hookRegistry, qs, okCall, entityControllers, regCall>>

\* ------------------------------------------------------------- TypedController
\* TypedController.findOne up to the afterLoad hooks
CtlFindOne(t) ==
  /\ Running(t) /\ tasks[t].pc = "c_findOne"
  /\ tasks' = [CallHooks(t, "afterLoad", "c_findOne_ret")
                 EXCEPT ![t].data = repoFindOne(tasks[t].etype, tasks[t].key)]
  /\ UNCHANGED <<hinv, writes, db, hookRegistry, qs, okCall, entityControllers, regCall>>

\* return data
CtlFindOneReturn(t) ==
  /\ Running(t) /\ tasks[t].pc = "c_findOne_ret"
  /\ tasks' = Return(t, [kind |-> "entity", key |-> tasks[t].data])
  /\ UNCHANGED <<hinv, writes, db, hookRegistry, qs, okCall, entityControllers, regCall>>

CtlHookOf(op) ==
  CASE op = "create" -> "beforeCreate"
    [] op = "update" -> "beforeUpdate"
    [] op = "delete" -> "beforeDelete"

\* TypedController.create / update / delete up to the before hooks
CtlWriteOp(t) ==
  /\ Running(t) /\ tasks[t].pc \in {"c_create", "c_update", "c_delete"}
  /\ tasks' = CallHooks(t, CtlHookOf(tasks[t].op), "c_write")
  /\ UNCHANGED <<hinv, writes, db, hookRegistry, qs, okCall, entityControllers, regCall>>

\* return repo.save(body) / repo.update(key, body) / repo.delete(key)
CtlWrite(t) ==
  /\ Running(t) /\ tasks[t].pc = "c_write"
  /\ LET e == tasks[t].etype
         key == tasks[t].key
         hit(r) == r.type = e /\ key.t = "number" /\ r.key = key.v
     IN  CASE tasks[t].op = "create" ->
                /\ db' = db \cup {Row(e, nextKey(e), tasks[t].inst.fk)}
                /\ writes' = writes \cup {Write(t, "save", Num(nextKey(e)))}
                /\ tasks' = Return(t, [kind |-> "instance", key |-> Num(nextKey(e))])
           [] tasks[t].op = "update" ->
                /\ db' = {IF hit(r) THEN [r EXCEPT !.fk = tasks[t].inst.fk] ELSE r : r \in db}
                /\ writes' = writes \cup {Write(t, "update", key)}
                /\ tasks' = Return(t, [kind |-> "updateResult", key |-> key])
           [] tasks[t].op = "delete" ->
                /\ db' = {r \in db : ~hit(r)}
                /\ writes' = writes \cup {Write(t, "delete", key)}
                /\ tasks' = Return(t, [kind |-> "deleteResult", key |-> key])
  /\ UNCHANGED <<hinv, hookRegistry, qs, okCall, entityControllers, regCall>>

\* ------------------------------------------------------------- specification
TxContexts == {"tx1", "tx2"}

HookTypeInputs == HookType \cup {"undefined"}

\* the requests without navigation values
FlatRequest ==
  \E ctl \in {"service", "controller"}, e \in {"Class"}, tx \in TxContexts :
    \/ Request(ctl, "create", e, Undefined, PlainBody(e, Undefined), tx, "undefined")
    \/ \E key \in KeyInputs, op \in {"update", "delete", "findOne"} :
         /\ ctl = "controller" => key.t = "number"
         /\ Request(ctl, op, e, key, PlainBody(e, Undefined), tx, "undefined")
    \/ \E h \in HookTypeInputs :
         Request(ctl, "executeHooks", e, Undefined, PlainBody(e, Undefined), tx, h)

HookSteps ==
  \/ \E t \in Tids : ExecuteHooksEnter(t)
  \/ \E t \in Tids : CtlExecuteHooksEm(t)
  \/ \E t \in Tids : CtlExecuteHooksEnter(t)
  \/ \E t \in Tids : ExecuteHooksLoop(t)
  \/ \E t \in Tids : ExecuteHooksAwait(t)
  \/ \E x \in hinv, outcome \in {"resolved", "rejected"} : HandlerSettle(x, outcome)

ServiceSteps ==
  \/ \E t \in Tids : FindOne(t)
  \/ \E t \in Tids : FindOneReturn(t)
  \/ \E t \in Tids : Create(t)
  \/ \E t \in Tids : CreateInsert(t)
  \/ \E t \in Tids : DeepInsert(t)
  \/ \E t \in Tids : CreateSave(t)
  \/ \E t \in Tids : CreateReturn(t)
  \/ \E t \in Tids : Update(t)
  \/ \E t \in Tids : UpdateWrite(t)
  \/ \E t \in Tids : Delete(t)
  \/ \E t \in Tids : DeleteWrite(t)
  \/ \E t \in Tids : VoidReturn(t)

ControllerSteps ==
  \/ \E t \in Tids : CtlFindOne(t)
  \/ \E t \in Tids : CtlFindOneReturn(t)
  \/ \E t \in Tids : CtlWriteOp(t)
  \/ \E t \in Tids : CtlWrite(t)

Next == FlatRequest \/ HookSteps \/ ServiceSteps \/ ControllerSteps

Spec == Init /\ [][Next]_vars

\* The requests of deep insert: create with navigation values, on an empty
\* database.  Every hook type has one handler or none: the order of the
\* handlers of one dispatch is the matter of Spec.
DeepRequest ==
  \E e \in EntityTypes \ {"Class", "Profile"}, tx \in TxContexts : \E body \in Bodies(e) :
    Request("service", "create", e, Undefined, body, tx, "undefined")

InitDeep ==
  /\ tasks = << >>
  /\ hinv = {}
  /\ writes = {}
  /\ db = {}
  /\ hookRegistry \in {r \in Registries : \A h \in HookType : r[h] \in {0, 1}}
  /\ qs = [pc |-> "idle"]
  /\ NoOtherCalls

NextDeep ==
  \/ DeepRequest
  \/ \E t \in Tids : ExecuteHooksLoop(t)
  \/ \E t \in Tids : ExecuteHooksAwait(t)
  \/ \E x \in hinv, outcome \in {"resolved", "rejected"} : HandlerSettle(x, outcome)
  \/ \E t \in Tids : Create(t)
  \/ \E t \in Tids : CreateInsert(t)
  \/ \E t \in Tids : DeepInsert(t)
  \/ \E t \in Tids : DeepInsertResume(t)
  \/ \E t \in Tids : CreateSave(t)
  \/ \E t \in Tids : CreateReturn(t)

SpecDeep == InitDeep /\ [][NextDeep]_vars

\* ------------------------------------------------------------- properties
InvsOf(t, h) == {x \in hinv : x.task = t /\ x.hookType = h}

WritesOf(t) == {w \in writes : w.task = t}

\* the task has just left the loop of _executeHooks normally
HooksCompleted(t) ==
  /\ tasks[t].consulted
  /\ tasks[t].pc = tasks[t].ret

BeforeHooks == {"beforeCreate", "beforeUpdate", "beforeDelete"}

CrudOps == {"create", "update", "delete"}

\* C1: the dispatch of an event-type hook never waits for a handler: a task is
\* never awaiting a handler of a type in HookEvents; when the dispatch has
\* returned, every registered handler has been triggered, running or not; and
\* a task fails with a handler's error only when a handler threw while being
\* called or an awaited (non-event) handler rejected, so that the settling of
\* an event handler, or its never settling, changes no outcome.
C1_EventsNotAwaited ==
  \A t \in Tids :
    /\ tasks[t].pc = "hooks_await" => tasks[t].hookType \notin HookEvents
    /\ (HooksCompleted(t) /\ tasks[t].hookType \in HookEvents) =>
         \A idx \in 1..hookRegistry[tasks[t].hookType] :
           \E x \in InvsOf(t, tasks[t].hookType) : x.idx = idx
    /\ tasks[t].error = "HookError" =>
         \E x \in hinv :
           /\ x.task = t
           /\ \/ x.state = "threw"
              \/ x.state = "rejected" /\ x.hookType \notin HookEvents

\* C1 witness: a create has resolved while one of its afterSave handlers is
\* still running
C1_Witness ==
  \E t \in Tids, x \in hinv :
    /\ tasks[t].op = "create" /\ tasks[t].status = "ok"
    /\ x.task = t /\ x.hookType = "afterSave" /\ x.state = "running"

\* C2: no failure of an event handler is propagated: a create, update or
\* delete one of whose event handlers failed, in whatever way, does not fail,
\* and when its dispatch has returned every handler of the dispatch was triggered.
C2_EventFailureNeverPropagated ==
  \A t \in Tids, x \in hinv :
    (/\ tasks[t].op \in CrudOps
     /\ x.task = t /\ x.hookType \in HookEvents
     /\ x.state \in {"threw", "rejected"}) =>
       /\ tasks[t].status # "failed"
       /\ tasks[t].status = "ok" =>
            \A idx \in 1..hookRegistry[x.hookType] :
              \E y \in InvsOf(t, x.hookType) : y.idx = idx

\* C3: the handlers of a hook type that is no event run one at a time in the
\* order of findHooks: a handler is started only when every earlier one has
\* completed, none is started twice, and when _executeHooks has returned every
\* handler has run exactly once and has completed.
C3_HooksSequential ==
  \A t \in Tids, h \in HookType \ HookEvents :
    /\ \A x, y \in InvsOf(t, h) :
         /\ x.seq < y.seq => x.idx < y.idx /\ x.state = "resolved"
         /\ x.idx = y.idx => x.seq = y.seq
         /\ x.seq = y.seq => x = y
    /\ (HooksCompleted(t) /\ tasks[t].hookType = h) =>
         \A idx \in 1..hookRegistry[h] :
           /\ Cardinality({x \in InvsOf(t, h) : x.idx = idx}) = 1
           /\ \A x \in InvsOf(t, h) : x.state = "resolved"

\* C3 witness: _executeHooks has returned from a dispatch of two awaited handlers
C3_Witness ==
  \E t \in Tids :
    /\ HooksCompleted(t) /\ tasks[t].hookType \in BeforeHooks
    /\ Cardinality(InvsOf(t, tasks[t].hookType)) = 2

\* C4: in TypedService.create, update and delete, once a before-hook handler
\* has failed the operation can only be waiting for it or have thrown the
\* failure: it never resolves, it has issued no repository write, no later
\* handler of the hook type was started and no afterSave handler was triggered.
C4_BeforeHookFailure ==
  \A t \in Tids, x \in hinv :
    (/\ tasks[t].ctl = "service" /\ tasks[t].op \in CrudOps
     /\ x.task = t /\ x.hookType \in BeforeHooks
     /\ x.state \in {"threw", "rejected"}) =>
       /\ tasks[t].pc \in {"hooks_await", "rejected"}
       /\ tasks[t].status = "failed" => tasks[t].error = "HookError"
       /\ WritesOf(t) = {}
       /\ \A y \in InvsOf(t, x.hookType) : y.idx <= x.idx
       /\ InvsOf(t, "afterSave") = {}

\* C4 witness: an update has thrown the rejection of its first beforeUpdate
\* handler, a second handler being registered
C4_Witness ==
  \E t \in Tids, x \in hinv :
    /\ tasks[t].ctl = "service" /\ tasks[t].op = "update"
    /\ tasks[t].status = "failed" /\ tasks[t].error = "HookError"
    /\ x.task = t /\ x.hookType = "beforeUpdate"
    /\ x.idx = 1 /\ x.state = "rejected"
    /\ hookRegistry["beforeUpdate"] = 2

IsServiceFindOne(t) ==
  /\ tasks[t].ctl = "service" /\ tasks[t].op = "findOne"
  /\ ~isNullish(tasks[t].key)
  /\ tasks[t].pc # "findOne"

Missing(t) == \A r \in db : ~(r.type = tasks[t].etype /\ r.key = tasks[t].key.v)

\* C5: TypedService.findOne with a non-null key of no entity throws
\* ResourceNotFoundError and runs no afterLoad handler; with the key of an
\* entity it returns that entity, after every afterLoad handler has run, each
\* with that entity as data.
C5_FindOneNotFound ==
  \A t \in Tids :
    IsServiceFindOne(t) =>
      IF Missing(t)
      THEN /\ tasks[t].status = "failed" /\ tasks[t].error = "ResourceNotFoundError"
           /\ \A x \in hinv : x.task # t
      ELSE /\ tasks[t].error # "ResourceNotFoundError"
           /\ \A x \in hinv : x.task = t =>
                x.hookType = "afterLoad" /\ x.data = tasks[t].key
           /\ tasks[t].status = "ok" =>
                /\ tasks[t].result = [kind |-> "entity", key |-> tasks[t].key]
                /\ \A idx \in 1..hookRegistry["afterLoad"] :
                     \E x \in InvsOf(t, "afterLoad") :
                       x.idx = idx /\ x.state = "resolved"

\* C5 witness: findOne has thrown ResourceNotFoundError, afterLoad handlers
\* being registered
C5_Witness ==
  \E t \in Tids :
    /\ IsServiceFindOne(t) /\ Missing(t)
    /\ tasks[t].error = "ResourceNotFoundError"
    /\ hookRegistry["afterLoad"] > 0

\* C6: TypedController.findOne with the key of no entity signals an error
\* instead of returning a value.
C6_CtlFindOneNotFound ==
  \A t \in Tids :
    (/\ tasks[t].ctl = "controller" /\ tasks[t].op = "findOne"
     /\ Missing(t)) => tasks[t].status # "ok"

\* C7: _executeHooks with an undefined hookType throws ServerInternalError,
\* in TypedService and in TypedController: findHooks is never consulted, no
\* handler is ever run, and the call cannot end but with that error.
C7_HookTypeRequired ==
  \A t \in Tids :
    tasks[t].hookType = "undefined" /\ tasks[t].op = "executeHooks" =>
      /\ ~tasks[t].consulted
      /\ \A x \in hinv : x.task # t
      /\ tasks[t].pc \in {"hooks_enter", "hooks_enter2", "rejected"}
      /\ tasks[t].status # "ok"
      /\ tasks[t].status = "failed" => tasks[t].error = "ServerInternalError"

\* C7 witness: _executeHooks of the controller has thrown ServerInternalError
\* for an undefined hookType
C7_Witness ==
  \E t \in Tids :
    /\ tasks[t].op = "executeHooks" /\ tasks[t].hookType = "undefined"
    /\ tasks[t].ctl = "controller"
    /\ tasks[t].error = "ServerInternalError"

IsNoFkCreate(t) ==
  /\ tasks[t].op = "create" /\ tasks[t].parent = 0
  /\ \E i \in 1..Len(getODataEntityNavigations(tasks[t].etype)) :
       /\ getODataEntityNavigations(tasks[t].etype)[i].type = "OneToOne"
       /\ getODataEntityNavigations(tasks[t].etype)[i].fkOn = "none"
       /\ tasks[t].body.nav[i].present

\* C8: TypedService.create with a one-to-one navigation value whose foreign
\* key is on neither entity type never resolves and dispatches no afterSave
\* for the parent; once the target has been created, the create of the parent
\* fails, and with ServerInternalError.
C8_NoForeignKey ==
  \A t \in Tids :
    IsNoFkCreate(t) =>
      /\ tasks[t].status # "ok"
      /\ InvsOf(t, "afterSave") = {}
      /\ \A k \in Tids :
           (tasks[k].parent = t /\ tasks[k].status = "ok") =>
             /\ tasks[t].pc \in {"deep_wait", "rejected"}
             /\ tasks[t].status = "failed" => tasks[t].error = "ServerInternalError"

\* C8 witness: the parent has failed with ServerInternalError after its
\* insert, the target having been created and its afterSave dispatched
C8_Witness ==
  \E t, k \in Tids :
    /\ IsNoFkCreate(t) /\ tasks[t].error = "ServerInternalError"
    /\ WritesOf(t) # {}
    /\ tasks[k].parent = t /\ tasks[k].status = "ok"
    /\ InvsOf(k, "afterSave") # {}

\* ------------------------------------------------------------- the data path of a query
\* The entity type queried is ODBModel / SelectModel of the query tests: a key
\* and two optional properties.
MaxRows == 2         \* rows of the table queried, at most

Vals == {1, 2}

NonKeyProps == {"c1", "c2"}

Props == {"key"} \cup NonKeyProps

Entity(k, a, b) == [p \in Props |-> CASE p = "key" -> k [] p = "c1" -> a [] p = "c2" -> b]

\* the tables: at most one row per key
Tables ==
  {rows \in SUBSET {Entity(k, a, b) : k \in 1..MaxRows, a \in Vals, b \in Vals} :
     \A r1, r2 \in rows : r1["key"] = r2["key"] => r1 = r2}

Directions == {"asc", "desc"}

\* the $orderby lists: at most two items, no property twice
OrderBys ==
  {<< >>}
    \cup {<< [field |-> f, order |-> d] >> : f \in NonKeyProps, d \in Directions}
    \cup {<< [field |-> fg[1], order |-> d], [field |-> fg[2], order |-> c] >> :
            fg \in {x \in NonKeyProps \X NonKeyProps : x[1] # x[2]},
            d \in Directions, c \in Directions}

\* r comes before s in the order of the $orderby list from item i on
RECURSIVE Before(_, _, _, _)
Before(r, s, orderby, i) ==
  IF i > Len(orderby) THEN FALSE
  ELSE LET f == orderby[i].field
       IN  IF r[f] = s[f] THEN Before(r, s, orderby, i + 1)
           ELSE IF orderby[i].order = "asc" THEN r[f] < s[f] ELSE r[f] > s[f]

\* the sequence is in the order of the $orderby list
InOrder(seq, orderby) ==
  \A i, j \in 1..Len(seq) : i < j => ~Before(seq[j], seq[i], orderby, 1)

\* the orders in which a set can be listed
Perms(S) ==
  {f \in [1..Cardinality(S) -> S] : \A i, j \in 1..Cardinality(S) : f[i] = f[j] => i = j}

\* repo.query(queryStatement): the statement of the DB helper selects the key
\* of every row as id, ORDER BY the $orderby list; rows that tie come in any order
queryStatementResults(table, orderby) ==
  {[i \in 1..Len(f) |-> [p \in {"id"} |-> f[i]["key"]]] :
     f \in {g \in Perms(table) : InOrder(g, orderby)}}

\* (mutation) the rows of the first statement are returned as they are
findByIds_skipped(table, rows) == {rows}

\* repo.findByIds(data.map((item) => item.id)): every entity with one of the
\* ids, with all its columns, in the order the database lists them (the
\* statement is WHERE key IN (ids), without ORDER BY)
findByIds(table, rows) ==
  Perms({r \in table : \E i \in 1..Len(rows) : rows[i]["id"] = r["key"]})

\* the properties of an entity in the response to a request with $select:
\* the selected ones and the key; all of them without $select
selectProperties(entity, select) ==
  IF select = {} THEN entity
  ELSE [p \in (DOMAIN entity) \cap (select \cup {"key"}) |-> entity[p]]

QueryState(pc, op, table, key, orderby, select, data, body, error) ==
  [pc |-> pc, op |-> op, table |-> table, key |-> key, orderby |-> orderby,
   select |-> select, data |-> data, body |-> body, error |-> error]

InitQuery ==
  /\ tasks = << >>
  /\ hinv = {}
  /\ writes = {}
  /\ db = {}
  /\ hookRegistry = [h \in HookType |-> 0]
  /\ NoOtherCalls
  /\ \E table \in Tables, select \in SUBSET NonKeyProps :
       \/ \E orderby \in OrderBys :
            qs = QueryState("find", "query", table, 0, orderby, select, << >>, << >>, "none")
       \/ \E key \in 1..MaxRows :
            qs = QueryState("findOne", "retrieve", table, key, << >>, select, << >>, << >>, "none")

\* TypedService.find with a query: data = await repo.query(queryStatement)
FindQueryIds ==
  /\ qs.pc = "find"
  /\ \E rows \in queryStatementResults(qs.table, qs.orderby) :
       qs' = [qs EXCEPT !.pc = "ids", !.data = rows]
  /\ UNCHANGED <<tasks, hinv, writes, db, hookRegistry, okCall, entityControllers, regCall>>

\* data = await repo.findByIds(data.map((item) => item.id))
FindByIds ==
  /\ qs.pc = "ids"
  /\ \E entities \in findByIds(qs.table, qs.data) :
       qs' = [qs EXCEPT !.pc = "loaded", !.data = entities]
  /\ UNCHANGED <<tasks, hinv, writes, db, hookRegistry, okCall, entityControllers, regCall>>

\* return data
FindReturn ==
  /\ qs.pc = "loaded"
  /\ qs' = [qs EXCEPT !.pc = "returned"]
  /\ UNCHANGED <<tasks, hinv, writes, db, hookRegistry, okCall, entityControllers, regCall>>

\* TypedService.findOne with a key: the entity with all its columns, or
\* ResourceNotFoundError
QueryFindOne ==
  /\ qs.pc = "findOne"
  /\ LET found == {r \in qs.table : r["key"] = qs.key}
     IN  IF found = {}
         THEN qs' = [qs EXCEPT !.pc = "failed", !.error = "ResourceNotFoundError"]
         ELSE qs' = [qs EXCEPT !.pc = "returned", !.data = << CHOOSE r \in found : TRUE >>]
  /\ UNCHANGED <<tasks, hinv, writes, db, hookRegistry, okCall, entityControllers, regCall>>

\* the response to the request: the entities returned, each with the
\* properties $select leaves
Respond ==
  /\ qs.pc = "returned"
  /\ qs' = [qs EXCEPT !.pc = "responded",
                      !.body = [i \in 1..Len(qs.data) |-> selectProperties(qs.data[i], qs.select)]]
  /\ UNCHANGED <<tasks, hinv, writes, db, hookRegistry, okCall, entityControllers, regCall>>

NextQuery == FindQueryIds \/ FindByIds \/ FindReturn \/ QueryFindOne \/ Respond

SpecQuery == InitQuery /\ [][NextQuery]_vars

\* C9: the array TypedService.find returns for a query with $orderby is in
\* the order of the $orderby list: by the first field in its direction, ties
\* broken by each later field in its own direction.
C9_FindReturnsInOrder ==
  (qs.op = "query" /\ qs.pc = "returned") => InOrder(qs.data, qs.orderby)

IsOneToManyChild(t, k) ==
  /\ tasks[k].parent = t
  /\ \E i \in 1..Len(getODataEntityNavigations(tasks[t].etype)) :
       /\ getODataEntityNavigations(tasks[t].etype)[i].type = "OneToMany"
       /\ getODataEntityNavigations(tasks[t].etype)[i].entity = tasks[k].etype

\* C11: every element of a OneToMany navigation array that create has
\* created is stored with its foreign key set to the key of the parent (so
\* that the parent expanded on the navigation has exactly these children).
C11_ChildrenReferParent ==
  \A t, k \in Tids :
    (IsOneToManyChild(t, k) /\ tasks[k].status = "ok") =>
      \E r \in db :
        /\ r.type = tasks[k].etype /\ r.key = tasks[k].result.key.v
        /\ r.fk = tasks[t].inst.key

\* ------------------------------------------------------------- ODataResult
\* More JS values: a string of decimal digits, an
\* array (its length and its inlinecount property), an object (its
\* inlinecount and '@odata.count' properties), a promise of a value.
Str(digits) == [t |-> "string", v |-> 0, s |-> digits]

JsArray(len, inlinecount) ==
  [t |-> "array", v |-> 0, len |-> len, inlinecount |-> inlinecount]

JsObject(inlinecount, count) ==
  [t |-> "object", v |-> 0, inlinecount |-> inlinecount, count |-> count]

Promise(x) == [t |-> "promise", v |-> 0, of |-> x]

\* typeof x
typeof(x) ==
  CASE x.t \in {"undefined", "absent"} -> "undefined"
    [] x.t \in {"null", "array", "promise"} -> "object"
    [] OTHER -> x.t

\* (mutation) a string is taken for a number
isNumber_orString(x) == typeof(x) \in {"number", "string"}

\* typeof x == 'number'
isNumber(x) == typeof(x) = "number"

ContentTypes == {"undefined", "", "text/plain"}

\* new ODataResult(statusCode, contentType, result)
ODataResult(statusCode, contentType, result) ==
  IF typeof(result) # "undefined"
  THEN [statusCode |-> statusCode, body |-> result,
        contentType |-> IF contentType \in {"undefined", ""}
                        THEN "application/json" ELSE contentType]
  ELSE [statusCode |-> statusCode, body |-> Undefined, contentType |-> "undefined"]

\* ODataResult.Ok after the await of a result that is a promise
Ok(result, contentType) ==
  IF result.t = "array"
  THEN LET inlinecount == IF isNumber(result.inlinecount)
                          THEN result.inlinecount ELSE Undefined
           value == IF isNumber(result.inlinecount)
                    THEN [result EXCEPT !.inlinecount = NoProp] ELSE result
       IN  ODataResult(200, contentType,
             [t |-> "object", v |-> 0, value |-> value,
              count |-> IF isNumber(inlinecount) THEN inlinecount ELSE NoProp])
  ELSE LET inlinecount == Undefined
       IN  IF typeof(result) = "object" /\ result.t = "object" /\ isNumber(inlinecount)
           THEN ODataResult(200, contentType, [result EXCEPT !.count = inlinecount])
           ELSE ODataResult(200, contentType, result)

\* the values inlinecount may have on a result
InlineCounts ==
  {NoProp, Undefined, Null} \cup {Num(n) : n \in 0..MaxRows}
                            \cup {Str(<<n>>) : n \in 0..MaxRows}

PlainResults ==
  {JsArray(n, c) : n \in 0..MaxRows, c \in InlineCounts}
    \cup {JsObject(c, NoProp) : c \in InlineCounts}
    \cup {Undefined, Null, Num(1)}

Results == PlainResults \cup {Promise(r) : r \in PlainResults}

\* ODataResult.Ok(result, contentType) called
InitResult ==
  /\ tasks = << >>
  /\ hinv = {}
  /\ writes = {}
  /\ db = {}
  /\ hookRegistry = [h \in HookType |-> 0]
  /\ qs = [pc |-> "idle"]
  /\ entityControllers = EmptyMap
  /\ regCall = RegCall("none", "none", NoController, EmptyMap, FALSE, NoController, EmptyMap)
  /\ \E r \in Results, c \in ContentTypes :
       okCall = [pc |-> "called", arg |-> r, result |-> r, contentType |-> c,
                 out |-> ODataResult(0, "undefined", Undefined)]

\* if (result instanceof Promise) result = await result
OkAwait ==
  /\ okCall.pc = "called" /\ okCall.result.t = "promise"
  /\ okCall' = [okCall EXCEPT !.pc = "awaited", !.result = okCall.result.of]
  /\ UNCHANGED <<tasks, hinv, writes, db, hookRegistry, qs, entityControllers, regCall>>

\* the rest of ODataResult.Ok
OkReturn ==
  /\ \/ okCall.pc = "called" /\ okCall.result.t # "promise"
     \/ okCall.pc = "awaited"
  /\ okCall' = [okCall EXCEPT !.pc = "returned",
                              !.out = Ok(okCall.result, okCall.contentType)]
  /\ UNCHANGED <<tasks, hinv, writes, db, hookRegistry, qs, entityControllers, regCall>>

NextResult == OkAwait \/ OkReturn

SpecResult == InitResult /\ [][NextResult]_vars

\* the value ODataResult.Ok was called with, or the one its promise resolved with
OkArgument == IF okCall.arg.t = "promise" THEN okCall.arg.of ELSE okCall.arg

\* C12: ODataResult.Ok has status 200.  For an array the body is {value: the
\* array}; it has '@odata.count' exactly when the array had a numeric
\* inlinecount, the count is that number and the array in value has no
\* inlinecount any more.  For any other result the body is the result itself.
C12_OkEnvelope ==
  okCall.pc = "returned" =>
    /\ okCall.out.statusCode = 200
    /\ IF OkArgument.t = "array"
       THEN /\ okCall.out.body.t = "object"
            /\ okCall.out.body.value.t = "array"
            /\ okCall.out.body.value.len = OkArgument.len
            /\ okCall.out.body.count # NoProp <=> OkArgument.inlinecount.t = "number"
            /\ OkArgument.inlinecount.t = "number" =>
                 /\ okCall.out.body.count = OkArgument.inlinecount
                 /\ okCall.out.body.value.inlinecount = NoProp
       ELSE okCall.out.body = OkArgument

\* C12 witness: Ok has returned for a promise of an array with a numeric
\* inlinecount, and the body carries the count
C12_Witness ==
  /\ okCall.pc = "returned"
  /\ okCall.arg.t = "promise" /\ OkArgument.t = "array"
  /\ OkArgument.inlinecount = Num(2)
  /\ okCall.out.body.count = Num(2)

\* ------------------------------------------------------------- TypedService.find
Queries ==
  {NoQuery} \cup {[given |-> TRUE, count |-> c, top |-> n] :
                    c \in BOOLEAN, n \in {NoProp} \cup {Num(k) : k \in 0..1}}

\* helper.buildSQL({tableName, schema, query, keyName}): the statement of the
\* ids, and the count statement when the inline count is requested
buildSQL(query) ==
  [queryStatement |-> [top |-> query.top],
   countStatement |-> IF query.count THEN "count" ELSE "undefined"]

\* the rows of the entity type
RowsOf(e) == {r \in db : r.type = e}

\* the number of rows repo.query(queryStatement) returns
queryLength(e, statement) ==
  IF statement.top = NoProp \/ statement.top.v > Cardinality(RowsOf(e))
  THEN Cardinality(RowsOf(e)) ELSE statement.top.v

\* the decimal digits of a natural number
RECURSIVE Digits(_)
Digits(n) == IF n < 10 THEN <<n>> ELSE Append(Digits(n \div 10), n % 10)

\* parseInt of a string of decimal digits
RECURSIVE parseInt(_)
parseInt(digits) ==
  IF Len(digits) = 0 THEN 0
  ELSE 10 * parseInt(SubSeq(digits, 1, Len(digits) - 1)) + digits[Len(digits)]

\* [{ total }] = await repo.query(countStatement): the total as the driver
\* returns it, a number or a string
countResults(e) ==
  {Num(Cardinality(RowsOf(e))), Str(Digits(Cardinality(RowsOf(e))))}

\* (mutation) the total is stored as the driver returned it
toNumber_asIs(total) == total

\* if (typeof total == 'string') total = parseInt(total)
toNumber(total) ==
  IF typeof(total) = "string" THEN Num(parseInt(total.s)) ELSE total

FindRequest ==
  /\ tasks = << >>
  /\ \E e \in {"Class"}, tx \in TxContexts, query \in Queries :
       tasks' = << [NewTask("service", "find", e, Undefined, PlainBody(e, Undefined),
                            tx, 0, "find") EXCEPT !.query = query] >>
  /\ UNCHANGED <<hinv, writes, db, hookRegistry, qs, okCall, entityControllers, regCall>>

\* TypedService.find up to data = await repo.query(queryStatement), or
\* data = await repo.find() without a query
SvcFind(t) ==
  /\ Running(t) /\ tasks[t].pc = "find"
  /\ IF tasks[t].query.given
     THEN tasks' = [tasks EXCEPT ![t].pc = "find_ids", ![t].repo = TRUE,
                      ![t].data = JsArray(queryLength(tasks[t].etype,
                                            buildSQL(tasks[t].query).queryStatement), NoProp)]
     ELSE tasks' = [tasks EXCEPT ![t].pc = "find_loaded", ![t].repo = TRUE,
                      ![t].data = JsArray(Cardinality(RowsOf(tasks[t].etype)), NoProp)]
  /\ UNCHANGED <<hinv, writes, db, hookRegistry, qs, okCall, entityControllers, regCall>>

\* data = await repo.findByIds(data.map((item) => item.id))
SvcFindByIds(t) ==
  /\ Running(t) /\ tasks[t].pc = "find_ids"
  /\ tasks' = [tasks EXCEPT ![t].pc = IF buildSQL(tasks[t].query).countStatement # "undefined"
                                      THEN "find_count" ELSE "find_loaded"]
  /\ UNCHANGED <<hinv, writes, db, hookRegistry, qs, okCall, entityControllers, regCall>>

\* if (countStatement): the total is queried and stored as data.inlinecount
SvcFindCount(t) ==
  /\ Running(t) /\ tasks[t].pc = "find_count"
  /\ \E total \in countResults(tasks[t].etype) :
       tasks' = [tasks EXCEPT ![t].pc = "find_loaded",
                              ![t].data.inlinecount = toNumber(total)]
  /\ UNCHANGED <<hinv, writes, db, hookRegistry, qs, okCall, entityControllers, regCall>>

\* (mutation) the hooks are run for an empty result too
nonEmpty_always(data) == TRUE

\* data.length > 0
nonEmpty(data) == data.len > 0

\* if (data.length > 0) the afterLoad hooks are run with data
SvcFindLoaded(t) ==
  /\ Running(t) /\ tasks[t].pc = "find_loaded"
  /\ IF nonEmpty(tasks[t].data)
     THEN tasks' = CallHooks(t, "afterLoad", "find_ret")
     ELSE tasks' = [tasks EXCEPT ![t].pc = "find_ret"]
  /\ UNCHANGED <<hinv, writes, db, hookRegistry, qs, okCall, entityControllers, regCall>>

\* return data
SvcFindReturn(t) ==
  /\ Running(t) /\ tasks[t].pc = "find_ret"
  /\ tasks' = Return(t, [kind |-> "array", key |-> tasks[t].data])
  /\ UNCHANGED <<hinv, writes, db, hookRegistry, qs, okCall, entityControllers, regCall>>

\* GET of one entity: findOne(key, ctx)
FindOneRequest ==
  /\ tasks = << >>
  /\ \E e \in {"Class"}, tx \in TxContexts, key \in KeyInputs :
       tasks' = << NewTask("service", "findOne", e, key, PlainBody(e, Undefined),
                           tx, 0, "findOne") >>
  /\ UNCHANGED <<hinv, writes, db, hookRegistry, qs, okCall, entityControllers, regCall>>

NextFind ==
  \/ FindRequest
  \/ FindOneRequest
  \/ \E t \in Tids : FindOne(t)
  \/ \E t \in Tids : FindOneReturn(t)
  \/ \E t \in Tids : SvcFind(t)
  \/ \E t \in Tids : SvcFindByIds(t)
  \/ \E t \in Tids : SvcFindCount(t)
  \/ \E t \in Tids : SvcFindLoaded(t)
  \/ \E t \in Tids : SvcFindReturn(t)
  \/ \E t \in Tids : ExecuteHooksLoop(t)
  \/ \E t \in Tids : ExecuteHooksAwait(t)
  \/ \E x \in hinv, outcome \in {"resolved", "rejected"} : HandlerSettle(x, outcome)

SpecFind == Init /\ [][NextFind]_vars

\* C13: the array TypedService.find returns has an inlinecount exactly when
\* the DB helper produced a count statement for the query; it is then the
\* number of the total of the count statement, whether the driver returned
\* the total as a number or as a string.
C13_FindInlineCount ==
  \A t \in Tids :
    (tasks[t].op = "find" /\ tasks[t].status = "ok") =>
      LET data == tasks[t].result.key
          counted == tasks[t].query.given
                       /\ buildSQL(tasks[t].query).countStatement # "undefined"
      IN  /\ data.inlinecount # NoProp <=> counted
          /\ counted => data.inlinecount = Num(Cardinality(RowsOf(tasks[t].etype)))

\* C13 witness: find with $count=true and $top=1 on two rows has returned
\* one row and the inlinecount 2
C13_Witness ==
  \E t \in Tids :
    /\ tasks[t].op = "find" /\ tasks[t].status = "ok"
    /\ tasks[t].query.given /\ tasks[t].query.count
    /\ tasks[t].result.key.len = 1
    /\ tasks[t].result.key.inlinecount = Num(2)

\* ------------------------------------------------------------- registerController
\* the entities controllers are registered for
RegisteredEntities == {"Teacher", "Class", "Profile"}

\* (mutation) no entity is found in the map
has_never(map, entity) == FALSE

\* entityControllers.has(entity)
has(map, entity) == entity \in DOMAIN map

\* entityControllers.get(entity)
get(map, entity) == IF entity \in DOMAIN map THEN map[entity] ELSE NoController

\* entityControllers.set(entity, controller)
set(map, entity, controller) ==
  [e \in (DOMAIN map) \cup {entity} |-> IF e = entity THEN controller ELSE map[e]]

\* the first controller registerController was called with, per entity
firstOf(entity, controller) ==
  IF entity \in DOMAIN regCall.first THEN regCall.first
  ELSE set(regCall.first, entity, controller)

\* registerController(entity, controller); the controller may be undefined
registerController(entity, controller) ==
  /\ IF has(entityControllers, entity)
     THEN /\ regCall' = RegCall("registerController", entity, controller, entityControllers,
                                TRUE, NoController, firstOf(entity, controller))
          /\ UNCHANGED entityControllers
     ELSE /\ regCall' = RegCall("registerController", entity, controller, entityControllers,
                                FALSE, NoController, firstOf(entity, controller))
          /\ entityControllers' = set(entityControllers, entity, controller)
  /\ UNCHANGED <<tasks, hinv, writes, db, hookRegistry, qs, okCall>>

\* getEntityController(entity): the instance of the controller of the entity
getEntityController(entity) ==
  /\ regCall' = RegCall("getEntityController", entity, NoController, entityControllers,
                        FALSE, get(entityControllers, entity), regCall.first)
  /\ UNCHANGED <<tasks, hinv, writes, db, hookRegistry, qs, okCall, entityControllers>>

InitRegistry ==
  /\ tasks = << >>
  /\ hinv = {}
  /\ writes = {}
  /\ db = {}
  /\ hookRegistry = [h \in HookType |-> 0]
  /\ qs = [pc |-> "idle"]
  /\ NoOtherCalls

NextRegistry ==
  \/ \E entity \in RegisteredEntities, controller \in Controllers \cup {NoController} :
       registerController(entity, controller)
  \/ \E entity \in RegisteredEntities : getEntityController(entity)

SpecRegistry == InitRegistry /\ [][NextRegistry]_vars

\* C14: every entity of the map is mapped to the first controller that was
\* registered for it, and no other entity is in the map; a call of
\* registerController for an entity that had an entry has thrown and left the
\* map as it was; a call of getEntityController has left the map as it was
\* and returned the controller of the entity.
C14_OneEntityOneController ==
  /\ DOMAIN entityControllers = DOMAIN regCall.first
  /\ \A e \in DOMAIN entityControllers : entityControllers[e] = regCall.first[e]
  /\ regCall.op = "registerController" =>
       IF regCall.entity \in DOMAIN regCall.before
       THEN regCall.threw /\ entityControllers = regCall.before
       ELSE ~regCall.threw
  /\ regCall.op = "getEntityController" =>
       /\ entityControllers = regCall.before
       /\ regCall.returned = get(regCall.before, regCall.entity)

\* C14 witness: registerController has thrown for an entity that is mapped
\* to another controller than the one of the call
C14_Witness ==
  /\ regCall.op = "registerController" /\ regCall.threw
  /\ regCall.controller = "ControllerB"
  /\ entityControllers[regCall.entity] = "ControllerA"

\* ------------------------------------------------------------- the transaction context
\* the transaction contexts the tasks got their repositories for and wrote with
TxUsed == {tasks[t].tx : t \in Tids} \cup {w.tx : w \in writes}

ClassIds == {Num(k) : k \in 0..MaxKey}

\* POST Teachers(tid)/Default.addClass {classId}
AddClassRequest ==
  /\ tasks = << >>
  /\ \E tid \in {Num(k) : k \in InitialKeys}, classId \in ClassIds, tx \in TxContexts :
       tasks' = << [NewTask("model", "addClass", "Teacher", tid, PlainBody("Teacher", Undefined),
                            tx, 0, "addClass") EXCEPT !.arg = classId] >>
  /\ UNCHANGED <<hinv, writes, db, hookRegistry, qs, okCall, entityControllers, regCall>>

\* const c = await classService.findOne(classId): the call
AddClass(t) ==
  /\ Running(t) /\ tasks[t].pc = "addClass"
  /\ tasks' = [tasks EXCEPT ![t].pc = "addClass_found", ![t].kids = {Len(tasks) + 1}]
                 \o << NewTask("service", "findOne", "Class", tasks[t].arg,
                               PlainBody("Class", Undefined), tasks[t].tx, t, "findOne") >>
  /\ UNCHANGED <<hinv, writes, db, hookRegistry, qs, okCall, entityControllers, regCall>>

\* c === undefined
cIsUndefined(c) == c.kind = "entity" /\ c.key.t = "undefined"

\* c.cid: the key of the entity found; undefined on the empty object
cid(c) == IF c.kind = "entity" THEN c.key ELSE Undefined

\* (mutation) the update does not carry the teacher
addClassBody_empty(t) == PlainBody("Class", Undefined)

\* { teacherOneId: this.tid }
addClassBody(t) == PlainBody("Class", tasks[t].key)

\* the call awaited
Awaited(t) == CHOOSE k \in tasks[t].kids : TRUE

\* findOne settled: rethrown, or the check of c and the call of
\* classService.update(c.cid, { teacherOneId: this.tid })
AddClassFound(t) ==
  /\ Running(t) /\ tasks[t].pc = "addClass_found"
  /\ tasks[Awaited(t)].status # "running"
  /\ IF tasks[Awaited(t)].status = "failed"
     THEN tasks' = Throw(t, tasks[Awaited(t)].error)
     ELSE IF cIsUndefined(tasks[Awaited(t)].result)
     THEN tasks' = Throw(t, "ResourceNotFoundError")
     ELSE tasks' = [tasks EXCEPT ![t].pc = "addClass_updated", ![t].kids = {Len(tasks) + 1}]
                     \o << NewTask("service", "update", "Class",
                                   cid(tasks[Awaited(t)].result), addClassBody(t),
                                   tasks[t].tx, t, "update") >>
  /\ UNCHANGED <<hinv, writes, db, hookRegistry, qs, okCall, entityControllers, regCall>>

\* update settled: rethrown, or addClass returns
AddClassUpdated(t) ==
  /\ Running(t) /\ tasks[t].pc = "addClass_updated"
  /\ tasks[Awaited(t)].status # "running"
  /\ IF tasks[Awaited(t)].status = "failed"
     THEN tasks' = Throw(t, tasks[Awaited(t)].error)
     ELSE tasks' = Return(t, NoResult)
  /\ UNCHANGED <<hinv, writes, db, hookRegistry, qs, okCall, entityControllers, regCall>>

NextAction ==
  \/ AddClassRequest
  \/ \E t \in Tids : AddClass(t)
  \/ \E t \in Tids : AddClassFound(t)
  \/ \E t \in Tids : AddClassUpdated(t)
  \/ \E t \in Tids : FindOne(t)
  \/ \E t \in Tids : FindOneReturn(t)
  \/ \E t \in Tids : Update(t)
  \/ \E t \in Tids : UpdateWrite(t)
  \/ \E t \in Tids : VoidReturn(t)
  \/ \E t \in Tids : ExecuteHooksLoop(t)
  \/ \E t \in Tids : ExecuteHooksAwait(t)
  \/ \E x \in hinv, outcome \in {"resolved", "rejected"} : HandlerSettle(x, outcome)

SpecAction == Init /\ [][NextAction]_vars

\* the Class of the id the action was called with exists
ClassExists(t) == \E r \in db : r.type = "Class" /\ r.key = tasks[t].arg.v

\* C16: addClass with the id of no Class never resolves, fails with
\* ResourceNotFoundError only, and no update is called, no handler run and no
\* write issued.  With the id of a Class the only write is the update of
\* that Class by TypedService.update, and when addClass has resolved every
\* beforeUpdate handler has completed, every afterSave handler was triggered
\* and the foreign key of the Class is the key of the teacher.
C16_AddClass ==
  \A t \in Tids :
    (tasks[t].op = "addClass" /\ tasks[t].pc # "addClass") =>
      IF ~ClassExists(t)
      THEN /\ tasks[t].pc \in {"addClass_found", "rejected"}
           /\ tasks[t].status = "failed" => tasks[t].error = "ResourceNotFoundError"
           /\ \A k \in Tids : tasks[k].op # "update"
           /\ writes = {} /\ hinv = {}
      ELSE /\ \A w \in writes :
                /\ w.op = "update" /\ w.type = "Class" /\ w.key = tasks[t].arg
                /\ tasks[w.task].op = "update" /\ tasks[w.task].parent = t
           /\ tasks[t].status = "ok" =>
                /\ \E r \in db : r.type = "Class" /\ r.key = tasks[t].arg.v
                                     /\ r.fk = tasks[t].key
                /\ Cardinality(writes) = 1
                /\ \A idx \in 1..hookRegistry["beforeUpdate"] :
                     \E x \in hinv : /\ x.hookType = "beforeUpdate" /\ x.idx = idx
                                      /\ x.state = "resolved"
                /\ \A idx \in 1..hookRegistry["afterSave"] :
                     \E x \in hinv : x.hookType = "afterSave" /\ x.idx = idx

\* C16 witness: addClass has failed with ResourceNotFoundError for an id of
\* no Class, while other Classes exist and handlers are registered
C16_Witness ==
  \E t \in Tids :
    /\ tasks[t].op = "addClass" /\ ~ClassExists(t)
    /\ tasks[t].error = "ResourceNotFoundError"
    /\ \E r \in db : r.type = "Class"
    /\ hookRegistry["beforeUpdate"] > 0

\* the other case of C16: addClass has resolved and the Class refers to the teacher
C16_WitnessUpdated ==
  \E t \in Tids :
    /\ tasks[t].op = "addClass" /\ tasks[t].status = "ok"
    /\ \E r \in db : r.type = "Class" /\ r.key = tasks[t].arg.v /\ r.fk = tasks[t].key

\* ------------------------------------------------------------- the hook context
\* the hook types an operation runs
HooksOf(op) ==
  CASE op = "create" -> {"beforeCreate", "afterSave"}
    [] op = "update" -> {"beforeUpdate", "afterSave"}
    [] op = "delete" -> {"beforeDelete", "afterSave"}
    [] op = "findOne" -> {"afterLoad"}
    [] OTHER -> {}

\* C17: every handler a TypedService operation runs is handed a context with
\* the entity type of the service, the hook type of the dispatch (one of the
\* operation), the bound _getService as getService, and: the instance as data
\* and no key in create, the entity loaded as data in findOne, the instance
\* as data and the key in update, the key and no data in delete.
C17_HookContext ==
  \A x \in hinv :
    LET t == x.task
    IN  (tasks[t].ctl = "service" /\ tasks[t].op \in CrudOps \cup {"findOne"}) =>
          /\ x.etype = tasks[t].etype
          /\ x.hookType \in HooksOf(tasks[t].op)
          /\ x.getService = "_getService"
          /\ tasks[t].op = "create" =>
               /\ x.key = NoProp /\ x.data # NoProp
               /\ x.hookType = "afterSave" => x.data.key = tasks[t].inst.key
          /\ tasks[t].op = "findOne" => x.data = tasks[t].key
          /\ tasks[t].op = "update" => x.key = tasks[t].key /\ x.data = tasks[t].inst
          /\ tasks[t].op = "delete" => x.key = tasks[t].key /\ x.data = NoProp

\* C17 witness: a beforeUpdate handler and an afterSave handler of one update
\* have been handed its key
C17_Witness ==
  \E x, y \in hinv :
    /\ x.task = y.task /\ tasks[x.task].ctl = "service" /\ tasks[x.task].op = "update"
    /\ x.hookType = "beforeUpdate" /\ y.hookType = "afterSave"
    /\ x.key = tasks[x.task].key /\ y.key = x.key /\ x.key.t = "number"

\* ------------------------------------------------------------- the steps of create
\* the steps of a create in the order of the claim; the save only when the
\* deep insert reported that it is required
CreateSteps(t) ==
  <<"transform", "beforeCreate", "insert", "deepInsert">>
    \o (IF tasks[t].reSave THEN <<"save">> ELSE << >>)
    \o <<"afterSave", "return">>

Started(t, step) == \E i \in 1..Len(tasks[t].steps) : tasks[t].steps[i] = step

\* the creates the deep insert of t has called
KidsOf(t) == {k \in Tids : tasks[k].parent = t}

\* the navigation values of the body of t
PresentNavs(t) ==
  {i \in 1..Len(getODataEntityNavigations(tasks[t].etype)) : tasks[t].body.nav[i].present}

\* C18: the steps of TypedService.create are begun in the order: payload
\* transformation, beforeCreate hooks, insert, deep insert, save (exactly
\* when the deep insert requires it), afterSave dispatch, return; and each
\* only when the one before has completed: the insert after every
\* beforeCreate handler, the save and the afterSave dispatch after every
\* create of the deep insert and after the writes before them.  A create
\* that has resolved has done all the steps and returned the instance.
C18_CreateOrder ==
  \A t \in Tids :
    (tasks[t].ctl = "service" /\ tasks[t].op = "create") =>
      /\ Len(tasks[t].steps) <= Len(CreateSteps(t))
      /\ tasks[t].steps = SubSeq(CreateSteps(t), 1, Len(tasks[t].steps))
      /\ Started(t, "insert") =>
           /\ \A idx \in 1..hookRegistry["beforeCreate"] :
                \E x \in InvsOf(t, "beforeCreate") : x.idx = idx /\ x.state = "resolved"
           /\ \E w \in WritesOf(t) : w.op = "insert" /\ w.seq = 1
      /\ ~Started(t, "insert") => WritesOf(t) = {} /\ KidsOf(t) = {}
      /\ Started(t, "afterSave") =>
           /\ \A k \in KidsOf(t) : tasks[k].status = "ok"
           /\ \A i \in PresentNavs(t) :
                \/ \E k \in KidsOf(t) :
                     tasks[k].etype = getODataEntityNavigations(tasks[t].etype)[i].entity
                \/ tasks[t].body.nav[i] = Arr(0)
           /\ Started(t, "save") <=> \E w \in WritesOf(t) : w.op = "save" /\ w.seq = 2
           /\ Started(t, "save") <=> tasks[t].reSave
      /\ ~Started(t, "afterSave") => InvsOf(t, "afterSave") = {}
      /\ tasks[t].status = "ok" =>
           /\ tasks[t].steps = CreateSteps(t)
           /\ tasks[t].result = [kind |-> "instance", key |-> tasks[t].inst.key]
           /\ tasks[t].inst.key.t = "number"

\* C18 witness: a create has returned after a deep insert and a save
C18_Witness ==
  \E t \in Tids :
    /\ tasks[t].op = "create" /\ tasks[t].status = "ok"
    /\ tasks[t].steps = <<"transform", "beforeCreate", "insert", "deepInsert", "save",
                          "afterSave", "return">>
    /\ KidsOf(t) # {}

\* ------------------------------------------------------------- TypedService.save
\* if (key): undefined, null and 0 are falsy
truthy(x) == ~isNullish(x) /\ ~(x.t = "number" /\ x.v = 0)

\* the keys of the calls of save: none, the keys the repository may hold, and one more
SaveKeys == KeyInputs \cup {Num(MaxKey)}

\* PUT: save(key, body, ctx).  arg keeps what repo.findOne(key) finds at the
\* time of the call, whether the call looks for it or not.
SaveRequest ==
  /\ tasks = << >>
  /\ \E e \in {"Class"}, key \in SaveKeys, tx \in TxContexts :
     \E bodyKey \in {Undefined, key} :
       tasks' = << [NewTask("service", "save", e, key,
                            [PlainBody(e, Undefined) EXCEPT !.key = bodyKey], tx, 0, "save")
                      EXCEPT !.arg = repoFindOne(e, key)] >>
  /\ UNCHANGED <<hinv, writes, db, hookRegistry, qs, okCall, entityControllers, regCall>>

\* save up to return this.update(key, body, ctx) / return this.create(body, ctx)
Save(t) ==
  /\ Running(t) /\ tasks[t].pc = "save"
  /\ IF truthy(tasks[t].key) /\ repoFindOne(tasks[t].etype, tasks[t].key).t # "undefined"
     THEN tasks' = [tasks EXCEPT ![t].pc = "save_wait", ![t].kids = {Len(tasks) + 1},
                                   ![t].repo = TRUE]
                     \o << NewTask("service", "update", tasks[t].etype, tasks[t].key,
                                   tasks[t].body, tasks[t].tx, t, "update") >>
     ELSE tasks' = [tasks EXCEPT ![t].pc = "save_wait", ![t].kids = {Len(tasks) + 1},
                                   ![t].repo = TRUE]
                     \o << NewTask("service", "create", tasks[t].etype, Undefined,
                                   tasks[t].body, tasks[t].tx, t, "create") >>
  /\ UNCHANGED <<hinv, writes, db, hookRegistry, qs, okCall, entityControllers, regCall>>

\* the promise of save settles as the one of the update or create it returned
SaveSettled(t) ==
  /\ Running(t) /\ tasks[t].pc = "save_wait"
  /\ tasks[Awaited(t)].status # "running"
  /\ IF tasks[Awaited(t)].status = "failed"
     THEN tasks' = Throw(t, tasks[Awaited(t)].error)
     ELSE tasks' = Return(t, tasks[Awaited(t)].result)
  /\ UNCHANGED <<hinv, writes, db, hookRegistry, qs, okCall, entityControllers, regCall>>

NextSave ==
  \/ SaveRequest
  \/ \E t \in Tids : Save(t)
  \/ \E t \in Tids : SaveSettled(t)
  \/ \E t \in Tids : Create(t)
  \/ \E t \in Tids : CreateInsert(t)
  \/ \E t \in Tids : DeepInsert(t)
  \/ \E t \in Tids : CreateSave(t)
  \/ \E t \in Tids : CreateReturn(t)
  \/ \E t \in Tids : Update(t)
  \/ \E t \in Tids : UpdateWrite(t)
  \/ \E t \in Tids : VoidReturn(t)
  \/ \E t \in Tids : ExecuteHooksLoop(t)
  \/ \E t \in Tids : ExecuteHooksAwait(t)
  \/ \E x \in hinv, outcome \in {"resolved", "rejected"} : HandlerSettle(x, outcome)

SpecSave == Init /\ [][NextSave]_vars

\* the save has made its call
IsSaveCalled(t) == tasks[t].op = "save" /\ tasks[t].pc # "save"

\* the key was given and an entity with that key existed when save was called
ExistedAtSave(t) == ~isNullish(tasks[t].key) /\ tasks[t].arg.t # "undefined"

\* C19: a save runs one path only: the update path (beforeUpdate hooks,
\* repository update, afterSave; no insert) when the key is given and an
\* entity with that key exists, the create path (no update) in every other case.
C19_SaveCreateOrUpdate ==
  \A t \in Tids :
    IsSaveCalled(t) =>
      /\ Cardinality(KidsOf(t)) = 1
      /\ \A k \in KidsOf(t) :
           IF ExistedAtSave(t)
           THEN /\ tasks[k].op = "update" /\ tasks[k].key = tasks[t].key
                /\ \A w \in writes : w.op = "update" /\ w.key = tasks[t].key
                /\ \A x \in hinv : x.hookType \in {"beforeUpdate", "afterSave"}
           ELSE /\ tasks[k].op = "create"
                /\ \A w \in writes : w.op # "update"
                /\ \A x \in hinv : x.hookType \in {"beforeCreate", "afterSave"}

\* C20: a save with a key of an existing entity, whatever value findOne
\* accepts as a key (0 too), never issues an insert, and when it has resolved
\* it has updated the entity of the key.
C20_SaveExistingKey ==
  \A t \in Tids :
    (IsSaveCalled(t) /\ ExistedAtSave(t)) =>
      /\ \A w \in writes : w.op # "insert"
      /\ tasks[t].status = "ok" =>
           \E w \in writes : w.op = "update" /\ w.key = tasks[t].key

\* the save was given a key and no entity with that key existed at the call
MissingAtSave(t) ==
  tasks[t].op = "save" /\ tasks[t].key.t = "number" /\ tasks[t].arg.t = "undefined"

\* C21: when a save called with a key of no entity has resolved, an entity is
\* stored under that key: repo.findOne of the same key finds it.
C21_SaveStoresUnderKey ==
  \A t \in Tids :
    (MissingAtSave(t) /\ tasks[t].status = "ok") =>
      repoFindOne(tasks[t].etype, tasks[t].key).t # "undefined"

\* the before-hook of update and delete
BeforeHookOf(op) == IF op = "update" THEN "beforeUpdate" ELSE "beforeDelete"

\* C22: in TypedService.update and delete the only repository write is the
\* update (the delete) of the key, issued once and only when every registered
\* beforeUpdate (beforeDelete) handler has completed; afterSave is dispatched
\* only when the write was done; and the call resolves with no value.
C22_UpdateDeleteOrder ==
  \A t \in Tids :
    (tasks[t].ctl = "service" /\ tasks[t].op \in {"update", "delete"}) =>
      /\ Cardinality(WritesOf(t)) <= 1
      /\ \A w \in WritesOf(t) :
           /\ w.op = tasks[t].op /\ w.key = tasks[t].key
           /\ \A idx \in 1..hookRegistry[BeforeHookOf(tasks[t].op)] :
                \E x \in InvsOf(t, BeforeHookOf(tasks[t].op)) :
                  x.idx = idx /\ x.state = "resolved"
      /\ (tasks[t].hookType = "afterSave" \/ InvsOf(t, "afterSave") # {}) =>
           WritesOf(t) # {}
      /\ tasks[t].status = "ok" =>
           /\ tasks[t].result = NoResult
           /\ WritesOf(t) # {} /\ tasks[t].hookType = "afterSave"

\* C22 witness: a delete has resolved after its two beforeDelete handlers
\* completed and its afterSave handlers were triggered
C22_Witness ==
  \E t \in Tids :
    /\ tasks[t].ctl = "service" /\ tasks[t].op = "delete" /\ tasks[t].status = "ok"
    /\ Cardinality(InvsOf(t, "beforeDelete")) = 2
    /\ InvsOf(t, "afterSave") # {}
    /\ WritesOf(t) # {}

\* the afterLoad hooks of the call were asked for
AfterLoadCalled(t) ==
  (tasks[t].consulted /\ tasks[t].hookType = "afterLoad") \/ InvsOf(t, "afterLoad") # {}

\* C23: TypedService.find calls the afterLoad hooks exactly when the array it
\* loaded is not empty, every handler gets that whole array as data, and
\* without a query the array has every entity of the repository;
\* TypedService.findOne with a null or undefined key resolves with an empty
\* object and has neither asked for the repository nor called a hook.
C23_FindAfterLoad ==
  \A t \in Tids :
    /\ (tasks[t].ctl = "service" /\ tasks[t].op = "find") =>
         /\ AfterLoadCalled(t) => tasks[t].data.len > 0
         /\ (tasks[t].pc \in {"find_ret", "resolved"} /\ tasks[t].data.len > 0) =>
              /\ AfterLoadCalled(t)
              /\ \A idx \in 1..hookRegistry["afterLoad"] :
                   \E x \in InvsOf(t, "afterLoad") : x.idx = idx /\ x.state = "resolved"
         /\ \A x \in hinv :
              x.task = t => x.hookType = "afterLoad" /\ x.data = tasks[t].data
         /\ tasks[t].status = "ok" =>
              /\ tasks[t].result = [kind |-> "array", key |-> tasks[t].data]
              /\ ~tasks[t].query.given =>
                   tasks[t].data.len = Cardinality(RowsOf(tasks[t].etype))
    /\ (tasks[t].ctl = "service" /\ tasks[t].op = "findOne" /\ isNullish(tasks[t].key)) =>
         /\ tasks[t].status # "failed"
         /\ tasks[t].status = "ok" => tasks[t].result = [kind |-> "empty", key |-> Undefined]
         /\ ~tasks[t].repo /\ ~tasks[t].consulted
         /\ \A x \in hinv : x.task # t

\* C23 witness: a find without a query has returned two entities after its
\* afterLoad handlers completed
C23_Witness ==
  \E t \in Tids :
    /\ tasks[t].op = "find" /\ tasks[t].status = "ok" /\ ~tasks[t].query.given
    /\ tasks[t].data.len = 2
    /\ InvsOf(t, "afterLoad") # {}

\* C23 witness of the other cases: a find has returned an empty array
C23_WitnessEmpty ==
  \E t \in Tids :
    /\ tasks[t].op = "find" /\ tasks[t].status = "ok" /\ tasks[t].data.len = 0
    /\ hookRegistry["afterLoad"] > 0

\* ... and a findOne without a key has returned
C23_WitnessNoKey ==
  \E t \in Tids :
    tasks[t].op = "findOne" /\ isNullish(tasks[t].key) /\ tasks[t].status = "ok"

\* the navigations of the given type the body of the create has a value for
PresentNavsOfType(t, type) ==
  {i \in 1..Len(getODataEntityNavigations(tasks[t].etype)) :
     /\ tasks[t].body.nav[i].present
     /\ getODataEntityNavigations(tasks[t].etype)[i].type = type}

\* the stored rows of a type with a key
StoredRows(e, key) == {r \in db : r.type = e /\ key.t = "number" /\ r.key = key.v}

\* C24: when a create whose body has a value for a ManyToOne navigation has
\* returned, the target was created by a create of the target's service (one
\* call, of the target type, on the same transaction context), the parent was
\* saved again, and the stored row of the parent has in its foreign key the
\* key of the stored target.
C24_ManyToOneForeignKey ==
  \A t \in Tids :
    (/\ tasks[t].ctl = "service" /\ tasks[t].op = "create" /\ tasks[t].status = "ok"
     /\ PresentNavsOfType(t, "ManyToOne") # {}) =>
       \A i \in PresentNavsOfType(t, "ManyToOne") :
         LET nav == getODataEntityNavigations(tasks[t].etype)[i]
         IN  /\ Cardinality(KidsOf(t)) = 1
             /\ \A k \in KidsOf(t) :
                  /\ tasks[k].op = "create" /\ tasks[k].etype = nav.entity
                  /\ tasks[k].tx = tasks[t].tx /\ tasks[k].status = "ok"
                  /\ StoredRows(nav.entity, tasks[k].result.key) # {}
                  /\ StoredRows(tasks[t].etype, tasks[t].result.key) # {}
                  /\ \A r \in StoredRows(tasks[t].etype, tasks[t].result.key) :
                       r.fk = tasks[k].result.key
             /\ \E w \in WritesOf(t) : w.op = "save" /\ w.key = tasks[t].result.key

\* C24 witness: a create of a RefModel with a value for sm has returned
C24_Witness ==
  \E t \in Tids :
    /\ tasks[t].op = "create" /\ tasks[t].etype = "RefModel" /\ tasks[t].status = "ok"
    /\ PresentNavsOfType(t, "ManyToOne") # {}
    /\ \E r \in db : r.type = "RefModel" /\ r.fk.t = "number"

\* the one-to-one navigations with a value in the body of t whose foreign key
\* is declared on the target type and not on the type of t
TargetKeyedNavs(t) ==
  {i \in PresentNavsOfType(t, "OneToOne") :
     /\ ~fkDeclaredOn(getODataEntityNavigations(tasks[t].etype)[i], "source")
     /\ fkDeclaredOn(getODataEntityNavigations(tasks[t].etype)[i], "target")}

\* C25: when a create whose body has a value for a one-to-one navigation with
\* the foreign key on the target type has returned, the stored row of the
\* target has in its foreign key the key of the parent.
C25_TargetForeignKey ==
  \A t \in Tids :
    (/\ tasks[t].ctl = "service" /\ tasks[t].op = "create" /\ tasks[t].status = "ok"
     /\ TargetKeyedNavs(t) # {}) =>
       \A i \in TargetKeyedNavs(t), k \in KidsOf(t) :
         tasks[k].etype = getODataEntityNavigations(tasks[t].etype)[i].entity =>
           /\ StoredRows(tasks[k].etype, tasks[k].result.key) # {}
           /\ \A r \in StoredRows(tasks[k].etype, tasks[k].result.key) :
                r.fk = tasks[t].result.key

\* the OneToMany navigations the body of t has a value for that is no array
NotArrayNavs(t) ==
  {i \in PresentNavsOfType(t, "OneToMany") : ~tasks[t].body.nav[i].isArray}

CallWrites(t, ws) == {w \in ws : w.task = t \/ w.task \in KidsOf(t)}

\* the creates of the elements of a OneToMany navigation run on the
\* transaction context of the parent, the afterSave of the parent is
\* dispatched only when each of them has completed, and a create one of whose
\* elements failed does not resolve
C27_Children ==
  \A t \in Tids :
    (tasks[t].ctl = "service" /\ tasks[t].op = "create") =>
      /\ \A k \in Tids : IsOneToManyChild(t, k) => tasks[k].tx = tasks[t].tx
      /\ (tasks[t].hookType = "afterSave" \/ InvsOf(t, "afterSave") # {}) =>
           \A k \in KidsOf(t) : tasks[k].status = "ok"
      /\ (\E k \in KidsOf(t) : tasks[k].status = "failed") => tasks[t].status # "ok"

\* once a create has rejected, no step issues a write of that call
C27_Rejected ==
  \A t \in Tids :
    (tasks[t].ctl = "service" /\ tasks[t].op = "create" /\ tasks[t].status = "failed") =>
      CallWrites(t, writes') = CallWrites(t, writes)

\* C27: in a OneToMany deep insert the creates of the elements run on the
\* transaction context of the parent, the afterSave of the parent is
\* dispatched only after each of them has completed, and when one of them
\* fails the create rejects and no repository write of that create call is
\* issued after the rejection.
C27_ConcurrentChildren == []C27_Children /\ [][C27_Rejected]_vars

\* C28: the context TypedService hands to a handler of an event-type hook
\* has no txContext, whatever transaction context the operation has; the
\* context it hands to a handler of an awaited hook has the transaction
\* context the operation was called with.
C28_EventContextWithoutTx ==
  \A x \in hinv :
    tasks[x.task].ctl = "service" =>
      IF x.hookType \in HookEvents
      THEN x.txContext = "deleted" /\ x.txContext \notin TxContexts
      ELSE x.txContext = tasks[x.task].tx /\ x.txContext \in TxContexts

\* C28 witness: a delete called with tx2 has handed tx2 to a beforeDelete
\* handler and no txContext to an afterSave handler
C28_Witness ==
  \E x, y \in hinv :
    /\ x.task = y.task /\ tasks[x.task].ctl = "service" /\ tasks[x.task].op = "delete"
    /\ tasks[x.task].tx = "tx2"
    /\ x.hookType = "beforeDelete" /\ x.txContext = "tx2"
    /\ y.hookType = "afterSave" /\ y.txContext = "deleted"
====
